---- MODULE Spec2Model ----
(***************************************************************************)
(* Databricks Explorer MCP (src/server.py): the two tool entry points      *)
(* `search` and `fetch`, the identifier scheme "<kind>::<payload>", and    *)
(* the statement submit/poll loop `_run_sql`.                              *)
(*                                                                         *)
(* Python strings that the program parses are sequences of one-character   *)
(* strings; literal message fragments that are only ever concatenated and  *)
(* compared are kept as single elements of such a sequence.                *)
(*                                                                         *)
(* An invocation advances from one remote call to the next; invocations of *)
(* different callers interleave at those calls, and the remote services    *)
(* answer each call in any way they can.                                   *)
(***************************************************************************)
EXTENDS Integers, Sequences, FiniteSets, TLC

(***************************************************************************)
(* Bounds of the model                                                     *)
(***************************************************************************)
\* invocations started in one behaviour
MaxCalls == 2
\* free-text part of a search string / identifier payload, in characters
MaxBody == 2
\* characters of a catalog, schema or table name in the codec inputs
MaxName == 2

(***************************************************************************)
(* Program constants                                                       *)
(***************************************************************************)
\* _run_sql(sql, wait = 15): the poll budget fetch always uses
DefaultWait == 15
\* search: the preview keeps the first 60 characters of the SQL
PreviewLen == 60
\* len("sql:")
SqlPrefixLen == 4

(***************************************************************************)
(* Python str operations                                                   *)
(***************************************************************************)
IsSpace(c) == c \in {" ", "\t", "\n"}

LowerChar(c) ==
    CASE c = "S" -> "s"
      [] c = "Q" -> "q"
      [] c = "L" -> "l"
      [] c = "A" -> "a"
      [] OTHER -> c

\* str.lower()
Lower(s) == [i \in 1..Len(s) |-> LowerChar(s[i])]

\* str.startswith(prefix)
StartsWith(s, prefix) ==
    /\ Len(s) >= Len(prefix)
    /\ SubSeq(s, 1, Len(prefix)) = prefix

\* s[n:]
DropFirst(s, n) == SubSeq(s, n + 1, Len(s))

RECURSIVE LStrip(_)
\* str.lstrip()
LStrip(s) ==
    IF s # <<>> /\ IsSpace(Head(s)) THEN LStrip(Tail(s)) ELSE s

RECURSIVE RStrip(_)
\* the right half of str.strip()
RStrip(s) ==
    IF s # <<>> /\ IsSpace(s[Len(s)]) THEN RStrip(SubSeq(s, 1, Len(s) - 1)) ELSE s

\* str.strip()
Strip(s) == RStrip(LStrip(s))

\* index of the first occurrence of sep in s at or after position from, 0 if none
RECURSIVE Find(_, _, _)
Find(s, sep, from) ==
    IF from + Len(sep) - 1 > Len(s) THEN 0
    ELSE IF SubSeq(s, from, from + Len(sep) - 1) = sep THEN from
    ELSE Find(s, sep, from + 1)

\* needle in s
Contains(s, needle) == Find(s, needle, 1) # 0

\* str.split(sep, maxsplit): at most maxsplit cuts, left to right
RECURSIVE Split(_, _, _)
Split(s, sep, maxsplit) ==
    LET i == Find(s, sep, 1) IN
    IF maxsplit = 0 \/ i = 0 THEN <<s>>
    ELSE <<SubSeq(s, 1, i - 1)>>
            \o Split(DropFirst(s, i + Len(sep) - 1), sep, maxsplit - 1)

\* str.split(sep): cut at every occurrence
SplitAll(s, sep) == Split(s, sep, Len(s))

(***************************************************************************)
(* Text of the program                                                     *)
(***************************************************************************)
SEP     == <<":", ":">>
DOT     == <<".">>
QUERY   == <<"q", "u", "e", "r", "y">>
CATALOG == <<"c", "a", "t", "a", "l", "o", "g">>
SCHEMA  == <<"s", "c", "h", "e", "m", "a">>
TABLE   == <<"t", "a", "b", "l", "e">>
SQLTAG  == <<"s", "q", "l", ":">>

\* the keywords of _is_sql
Keywords ==
    { <<"s", "e", "l", "e", "c", "t">>, <<"w", "i", "t", "h">>,
      <<"i", "n", "s", "e", "r", "t">>, <<"u", "p", "d", "a", "t", "e">>,
      <<"d", "e", "l", "e", "t", "e">>, <<"m", "e", "r", "g", "e">> }

\* "" and a literal message
Empty == <<>>
Lit(text) == <<text>>

(***************************************************************************)
(* Python dicts and exceptions                                             *)
(***************************************************************************)
EmptyDict == <<>>

\* dict.get(key, default)
Get(d, key, default) == IF key \in DOMAIN d THEN d[key] ELSE default

Exc(type, msg) == [type |-> type, msg |-> msg]
NoExc == Exc("none", Empty)

\* d[key] on a dict without it: KeyError(key), whose str is the quoted key
KeyError(key) == Exc("KeyError", <<"'", key, "'">>)

\* a handler that names the errors it expects: the request errors and the
\* engine's RuntimeError, but neither KeyError nor TimeoutError
ExceptionClassesNarrow == {"HTTPError", "ValueError", "RuntimeError"}

\* the classes `except Exception` catches among those the program can meet
ExceptionClasses ==
    {"HTTPError", "KeyError", "ValueError", "RuntimeError", "TimeoutError"}

\* what requests.get / requests.post / raise_for_status raise
RequestErrors == { Exc("HTTPError", Lit("503 Server Error")) }

Ok(body) == [ok |-> TRUE, body |-> body, exc |-> NoExc]
Raise(e) == [ok |-> FALSE, body |-> EmptyDict, exc |-> e]

(***************************************************************************)
(* The Unity Catalog behind the Catalog Metadata Client                    *)
(***************************************************************************)
Named(n) == [name |-> n]
Commented(n, c) == [name |-> n, comment |-> c]

\* two catalogs, one schema, two tables
WorldA ==
    [ catalogs |-> << Commented(<<"a">>, Lit("main")), Named(<<"b">>) >>,
      schemas  |-> (<<"a">> :> << Named(<<"s">>) >>) @@ (<<"b">> :> << >>),
      tables   |-> (<< <<"a">>, <<"s">> >> :> << Named(<<"t">>), Named(<<"a">>) >>) ]

\* a listing with a record that has no name
WorldB ==
    [ catalogs |-> << Named(<<"a">>) >>,
      schemas  |-> (<<"a">> :> << Named(<<"s">>), Named(<<"t">>) >>),
      tables   |-> (<< <<"a">>, <<"s">> >> :> << Named(<<"t">>), [comment |-> Lit("x")] >>)
                   @@ (<< <<"a">>, <<"t">> >> :> << >>) ]

Worlds == {WorldA, WorldB}

\* list_catalogs(): GET /api/2.1/unity-catalog/catalogs
ListCatalogsResponses(w) ==
    {Ok([catalogs |-> w.catalogs]), Ok(EmptyDict)} \cup {Raise(e) : e \in RequestErrors}

\* list_schemas(cat)
ListSchemasResponses(w, cat) ==
    {Ok(IF cat \in DOMAIN w.schemas THEN [schemas |-> w.schemas[cat]] ELSE EmptyDict)}
        \cup {Raise(e) : e \in RequestErrors}

\* list_tables(cat, sch)
ListTablesResponses(w, cat, sch) ==
    {Ok(IF <<cat, sch>> \in DOMAIN w.tables THEN [tables |-> w.tables[<<cat, sch>>]]
        ELSE EmptyDict)}
        \cup {Raise(e) : e \in RequestErrors}

(***************************************************************************)
(* _is_sql and the search result entries                                   *)
(***************************************************************************)
\* a classifier that forgot the last keyword and the left trim
IsSqlForgetful(text) ==
    LET stripped == Lower(text) IN
    \/ \E kw \in Keywords \ { <<"m", "e", "r", "g", "e">> } : StartsWith(stripped, kw)
    \/ StartsWith(stripped, SQLTAG)

\* _is_sql(text)
IsSql(text) ==
    LET stripped == Lower(LStrip(text)) IN
    \/ \E kw \in Keywords : StartsWith(stripped, kw)
    \/ StartsWith(stripped, SQLTAG)

\* search: the statement a SQL-looking query stands for
SearchSql(query) ==
    IF StartsWith(Lower(query), SQLTAG)
    THEN Strip(DropFirst(query, SqlPrefixLen))
    ELSE Strip(query)

\* f"query::{sql}"
QueryId(sql) == QUERY \o SEP \o sql

\* search: the one stub of the SQL path
SqlStub(sql) ==
    [ id       |-> QueryId(sql),
      title    |-> Lit("SQL query preview"),
      text     |-> IF Len(sql) > PreviewLen
                   THEN SubSeq(sql, 1, PreviewLen) \o Lit("...")
                   ELSE sql,
      metadata |-> [sql |-> sql] ]

\* f"{cat}.{sch}" and f"{fq}.{tbl}"
Fq(cat, sch) == cat \o DOT \o sch
Fqt(cat, sch, tbl) == Fq(cat, sch) \o DOT \o tbl

CatalogId(cat) == CATALOG \o SEP \o cat
SchemaId(cat, sch) == SCHEMA \o SEP \o Fq(cat, sch)
TableId(cat, sch, tbl) == TABLE \o SEP \o Fqt(cat, sch, tbl)

\* one metadata result: id, title, text, metadata
Hit(id, label, fq, obj) ==
    [ id       |-> id,
      title    |-> Lit(label) \o fq,
      text     |-> Get(obj, "comment", Empty),
      metadata |-> obj ]

\* results.append({"error": str(exc)})
ErrorEntry(e) == [error |-> e.msg]

\* what a loop of search leaves: the results so far and the exception, if any
Gathered(res, e) == [results |-> res, exc |-> e]

RECURSIVE GatherCatalogs(_, _, _, _)
\* for cat in cats.get("catalogs", []): from the k-th on
GatherCatalogs(res, cats, k, qlc) ==
    IF k > Len(cats) THEN Gathered(res, NoExc)
    ELSE IF "name" \notin DOMAIN cats[k] THEN Gathered(res, KeyError("name"))
    ELSE LET name == cats[k].name IN
         GatherCatalogs(
            IF Contains(Lower(name), qlc)
            THEN Append(res, Hit(CatalogId(name), "Catalog: ", name, cats[k]))
            ELSE res,
            cats, k + 1, qlc)

\* the schema part of one turn of `for sch in schs`, up to list_tables
GatherSchema(res, cat, sch, qlc) ==
    IF "name" \notin DOMAIN sch THEN Gathered(res, KeyError("name"))
    ELSE LET fq == Fq(cat, sch.name) IN
         Gathered(
            IF Contains(Lower(fq), qlc)
            THEN Append(res, Hit(SchemaId(cat, sch.name), "Schema: ", fq, sch))
            ELSE res,
            NoExc)

RECURSIVE GatherTables(_, _, _, _, _, _)
\* for tbl in tbls.get("tables", []): from the k-th on
GatherTables(res, cat, sch, tbls, k, qlc) ==
    IF k > Len(tbls) THEN Gathered(res, NoExc)
    ELSE IF "name" \notin DOMAIN tbls[k] THEN Gathered(res, KeyError("name"))
    ELSE LET fqt == Fqt(cat, sch, tbls[k].name) IN
         GatherTables(
            IF Contains(Lower(fqt), qlc)
            THEN Append(res, Hit(TableId(cat, sch, tbls[k].name), "Table: ", fqt, tbls[k]))
            ELSE res,
            cat, sch, tbls, k + 1, qlc)

(***************************************************************************)
(* State                                                                   *)
(***************************************************************************)
\* the callers the hosting transport serves
Procs == {1, 2}

VARIABLES
    world,      \* what the Catalog Metadata Client would list
    stmts,      \* Statement Service: the statements submitted, by statement id
    calls,      \* invocations started so far
    pc,         \* per caller: where its invocation stands
    op,         \* per caller: "search" or "fetch"
    arg,        \* per caller: the query or rid argument
    inv,        \* per caller: the number of its invocation
    results,    \* search: the results list
    cats,       \* search: cats.get("catalogs", [])
    schs,       \* search: schs.get("schemas", [])
    ci,         \* search: index of cat in the second loop over cats
    si,         \* search: index of sch in the loop over schs
    target,     \* fetch: kind, name and the unpacked cat, sch, tbl
    sql,        \* fetch: the statement handed to _run_sql
    stId,       \* _run_sql: st_id
    polls,      \* _run_sql: turns of the poll loop taken
    status,     \* _run_sql: the status body read last
    exc,        \* the exception the invocation caught, if any
    ret,        \* per caller: what the invocation returned
    contacted,  \* per caller: the remote services the invocation has called
    failedSeen, \* per caller: a poll of the invocation reported FAILED
    failedMsg,  \* per caller: the error message that report carried, if any
    allPending  \* per caller: every poll so far reported a state that is
                \* neither FAILED nor SUCCEEDED with result data

searchVars == <<results, cats, schs, ci, si>>
fetchVars  == <<target, sql, stId, polls, status, failedSeen, failedMsg, allPending>>
vars == <<world, stmts, calls, pc, op, arg, inv, results, cats, schs, ci, si,
          target, sql, stId, polls, status, exc, ret, contacted, failedSeen,
          failedMsg, allPending>>

NoRet == EmptyDict
NoTarget == [kind |-> Empty, name |-> Empty, cat |-> Empty, sch |-> Empty, tbl |-> Empty]
\* meta.get("statement_id") of a response without one
None == 0

Init ==
    /\ world \in Worlds
    /\ stmts = << >>
    /\ calls = 0
    /\ pc = [p \in Procs |-> "idle"]
    /\ op = [p \in Procs |-> "none"]
    /\ arg = [p \in Procs |-> Empty]
    /\ inv = [p \in Procs |-> 0]
    /\ results = [p \in Procs |-> << >>]
    /\ cats = [p \in Procs |-> << >>]
    /\ schs = [p \in Procs |-> << >>]
    /\ ci = [p \in Procs |-> 0]
    /\ si = [p \in Procs |-> 0]
    /\ target = [p \in Procs |-> NoTarget]
    /\ sql = [p \in Procs |-> Empty]
    /\ stId = [p \in Procs |-> None]
    /\ polls = [p \in Procs |-> 0]
    /\ status = [p \in Procs |-> EmptyDict]
    /\ exc = [p \in Procs |-> NoExc]
    /\ ret = [p \in Procs |-> NoRet]
    /\ contacted = [p \in Procs |-> {}]
    /\ failedSeen = [p \in Procs |-> FALSE]
    /\ failedMsg = [p \in Procs |-> Empty]
    /\ allPending = [p \in Procs |-> TRUE]

\* the ids the search of p has just returned
GivenIds(p) ==
    IF pc[p] = "done" /\ op[p] = "search" /\ "results" \in DOMAIN ret[p]
    THEN {ret[p].results[k].id :
            k \in {k \in 1..Len(ret[p].results) : "id" \in DOMAIN ret[p].results[k]}}
    ELSE {}

\* a new invocation starts with fresh locals: any time the caller has none in
\* progress, or on a result of the search it has just made
Enter(p, o, a) ==
    /\ pc[p] = "idle" \/ a \in GivenIds(p)
    /\ calls < MaxCalls
    /\ calls' = calls + 1
    /\ inv' = [inv EXCEPT ![p] = calls + 1]
    /\ op' = [op EXCEPT ![p] = o]
    /\ arg' = [arg EXCEPT ![p] = a]
    /\ cats' = [cats EXCEPT ![p] = << >>]
    /\ schs' = [schs EXCEPT ![p] = << >>]
    /\ ci' = [ci EXCEPT ![p] = 0]
    /\ si' = [si EXCEPT ![p] = 0]
    /\ stId' = [stId EXCEPT ![p] = None]
    /\ polls' = [polls EXCEPT ![p] = 0]
    /\ status' = [status EXCEPT ![p] = EmptyDict]
    /\ contacted' = [contacted EXCEPT ![p] = {}]
    /\ failedSeen' = [failedSeen EXCEPT ![p] = FALSE]
    /\ failedMsg' = [failedMsg EXCEPT ![p] = Empty]
    /\ allPending' = [allPending EXCEPT ![p] = TRUE]
    /\ UNCHANGED <<world, stmts>>

(***************************************************************************)
(* search                                                                  *)
(***************************************************************************)
\* does `except Exception` catch e
Caught(e) == e.type \in ExceptionClasses

\* an except clause that answers with the error alone
SearchReturnErrorOnly(res, e) ==
    IF e = NoExc THEN [results |-> res]
    ELSE [results |-> <<ErrorEntry(e)>>]

\* search: return {"results": results}, through the except clause when the
\* try block raised; an exception the clause does not catch leaves the tool
SearchReturn(res, e) ==
    IF e = NoExc THEN [results |-> res]
    ELSE IF Caught(e) THEN [results |-> Append(res, ErrorEntry(e))]
    ELSE [raised |-> e]

\* the invocation of p ends with the value r
Finish(p, r, e) ==
    /\ pc' = [pc EXCEPT ![p] = "done"]
    /\ ret' = [ret EXCEPT ![p] = r]
    /\ exc' = [exc EXCEPT ![p] = e]

\* the invocation of p goes on to its next remote call
Continue(p, at) ==
    /\ pc' = [pc EXCEPT ![p] = at]
    /\ ret' = [ret EXCEPT ![p] = NoRet]
    /\ exc' = [exc EXCEPT ![p] = NoExc]

\* search(query) up to its first remote call
CallSearch(p, query) ==
    /\ Enter(p, "search", query)
    /\ target' = [target EXCEPT ![p] = NoTarget]
    /\ sql' = [sql EXCEPT ![p] = Empty]
    /\ IF IsSql(query)
       THEN /\ results' = [results EXCEPT ![p] = <<SqlStub(SearchSql(query))>>]
            /\ pc' = [pc EXCEPT ![p] = "done"]
            /\ ret' = [ret EXCEPT ![p] = [results |-> <<SqlStub(SearchSql(query))>>]]
            /\ exc' = [exc EXCEPT ![p] = NoExc]
       ELSE /\ results' = [results EXCEPT ![p] = << >>]
            /\ pc' = [pc EXCEPT ![p] = "list_catalogs"]
            /\ ret' = [ret EXCEPT ![p] = NoRet]
            /\ exc' = [exc EXCEPT ![p] = NoExc]

\* where search stands between two remote calls: the next call (or "done"),
\* the results so far, the exception raised, and its loop variables
SearchAt(at, res, e, i, j) == [pc |-> at, results |-> res, exc |-> e, ci |-> i, si |-> j]

\* the second loop of search moves on to the i-th catalog: list_schemas is
\* next, or the loop is over
SearchNextCatalog(res, catsV, i, j) ==
    IF i > Len(catsV)
    THEN SearchAt("done", res, NoExc, Len(catsV), j)
    ELSE SearchAt("list_schemas", res, NoExc, i, j)

\* the loop over schs moves on to the j-th schema of the i-th catalog: its
\* match, then list_tables is next; after the last schema, the next catalog
SearchNextSchema(res, catsV, schsV, i, j, qlc) ==
    IF j > Len(schsV)
    THEN SearchNextCatalog(res, catsV, i + 1, Len(schsV))
    ELSE LET g == GatherSchema(res, catsV[i].name, schsV[j], qlc) IN
         IF g.exc # NoExc
         THEN SearchAt("done", g.results, g.exc, i, j)
         ELSE SearchAt("list_tables", g.results, NoExc, i, j)

\* search moves to `at`; when it is over, through the except clause and the
\* final return
SearchMove(p, at) ==
    /\ ci' = [ci EXCEPT ![p] = at.ci]
    /\ si' = [si EXCEPT ![p] = at.si]
    /\ pc' = [pc EXCEPT ![p] = at.pc]
    /\ exc' = [exc EXCEPT ![p] = at.exc]
    /\ results' = [results EXCEPT ![p] =
                      IF at.exc # NoExc /\ Caught(at.exc)
                      THEN Append(at.results, ErrorEntry(at.exc))
                      ELSE at.results]
    /\ ret' = [ret EXCEPT ![p] =
                  IF at.pc = "done" THEN SearchReturn(at.results, at.exc) ELSE NoRet]

\* cats = list_catalogs() and the first loop
SearchListCatalogs(p) ==
    /\ pc[p] = "list_catalogs"
    /\ contacted' = [contacted EXCEPT ![p] = @ \cup {"catalog"}]
    /\ \E r \in ListCatalogsResponses(world) :
          IF ~r.ok
          THEN /\ SearchMove(p, SearchAt("done", results[p], r.exc, ci[p], si[p]))
               /\ cats' = cats
          ELSE LET listed == Get(r.body, "catalogs", << >>)
                   g == GatherCatalogs(results[p], listed, 1, Lower(arg[p])) IN
               /\ cats' = [cats EXCEPT ![p] = listed]
               /\ IF g.exc # NoExc
                  THEN SearchMove(p, SearchAt("done", g.results, g.exc, ci[p], si[p]))
                  ELSE SearchMove(p, SearchNextCatalog(g.results, listed, 1, si[p]))
    /\ UNCHANGED <<world, stmts, calls, op, arg, inv, schs, fetchVars>>

\* schs = list_schemas(cat["name"]) and the first schema
SearchListSchemas(p) ==
    /\ pc[p] = "list_schemas"
    /\ contacted' = [contacted EXCEPT ![p] = @ \cup {"catalog"}]
    /\ \E r \in ListSchemasResponses(world, cats[p][ci[p]].name) :
          IF ~r.ok
          THEN /\ SearchMove(p, SearchAt("done", results[p], r.exc, ci[p], si[p]))
               /\ schs' = schs
          ELSE LET listed == Get(r.body, "schemas", << >>) IN
               /\ schs' = [schs EXCEPT ![p] = listed]
               /\ SearchMove(p, SearchNextSchema(results[p], cats[p], listed, ci[p], 1,
                                                 Lower(arg[p])))
    /\ UNCHANGED <<world, stmts, calls, op, arg, inv, cats, fetchVars>>

\* tbls = list_tables(cat["name"], sch["name"]), the loop over tbls, and the
\* next schema
SearchListTables(p) ==
    /\ pc[p] = "list_tables"
    /\ contacted' = [contacted EXCEPT ![p] = @ \cup {"catalog"}]
    /\ LET cat == cats[p][ci[p]].name
           sch == schs[p][si[p]].name IN
       \E r \in ListTablesResponses(world, cat, sch) :
          IF ~r.ok
          THEN SearchMove(p, SearchAt("done", results[p], r.exc, ci[p], si[p]))
          ELSE LET g == GatherTables(results[p], cat, sch,
                                     Get(r.body, "tables", << >>), 1, Lower(arg[p])) IN
               IF g.exc # NoExc
               THEN SearchMove(p, SearchAt("done", g.results, g.exc, ci[p], si[p]))
               ELSE SearchMove(p, SearchNextSchema(g.results, cats[p], schs[p], ci[p],
                                                   si[p] + 1, Lower(arg[p])))
    /\ UNCHANGED <<world, stmts, calls, op, arg, inv, cats, schs, fetchVars>>

(***************************************************************************)
(* Statement Service                                                       *)
(***************************************************************************)
\* total_row_count values a manifest may carry
RowCounts == {1, 3}

StateOnly(state) == [status |-> [state |-> state]]

\* the bodies a status GET can carry (beside statement_id): a statement that
\* is pending, failed with and without an error detail, succeeded with no
\* result key, with an empty result, with result data (with and without a
\* manifest), and a body without its status field
StatusValues ==
    { StateOnly("PENDING"),
      StateOnly("FAILED"),
      [status |-> [state |-> "FAILED", error |-> [message |-> Lit("syntax error")]]],
      [status |-> [state |-> "SUCCEEDED"], manifest |-> [total_row_count |-> 1]],
      [status |-> [state |-> "SUCCEEDED"], manifest |-> [total_row_count |-> 0],
       result |-> EmptyDict],
      [status |-> [state |-> "SUCCEEDED"], result |-> [row_count |-> 1]],
      EmptyDict }
    \cup { [status |-> [state |-> "SUCCEEDED"], manifest |-> [total_row_count |-> n],
            result |-> [row_count |-> n]] : n \in RowCounts }

\* POST /api/2.0/sql/statements/: an error, or a body with or without the id
\* the service gave the new statement
SubmitResponses(id) ==
    {Ok([statement_id |-> id]), Ok(EmptyDict)} \cup {Raise(e) : e \in RequestErrors}

\* GET /api/2.0/sql/statements/{id}; an id the service never gave is an error
StatusResponses(id) ==
    (IF id \in 1..Len(stmts)
     THEN {Ok([statement_id |-> id] @@ st) : st \in StatusValues}
     ELSE {})
        \cup {Raise(e) : e \in RequestErrors}

\* str(status) of the status body the FAILED branch falls back to
StrOf(st) == <<"str(", ToString(st), ")">>

(***************************************************************************)
(* _run_sql                                                                *)
(***************************************************************************)
\* what one turn of the poll loop, or the whole of _run_sql, comes to
Returned(st) == [kind |-> "return", status |-> st, exc |-> NoExc]
Raised(e) == [kind |-> "raise", status |-> EmptyDict, exc |-> e]
Sleeping == [kind |-> "sleep", status |-> EmptyDict, exc |-> NoExc]

\* a poll loop that takes SUCCEEDED for the end, result or not
HasResultAlways(st) == TRUE

\* bool(status.get("result"))
HasResult(st) == "result" \in DOMAIN st /\ st.result # EmptyDict

\* status["status"].get("error", {}).get("message", str(status))
ErrorMsg(st) ==
    Get(Get(st.status, "error", EmptyDict), "message", StrOf(st))

\* one turn of `for _ in range(wait)` on the status just read
PollTurn(st) ==
    IF "status" \notin DOMAIN st THEN Raised(KeyError("status"))
    ELSE IF "state" \notin DOMAIN st.status THEN Raised(KeyError("state"))
    ELSE IF st.status.state = "SUCCEEDED" /\ HasResult(st) THEN Returned(st)
    ELSE IF st.status.state = "FAILED"
         THEN Raised(Exc("RuntimeError", Lit("SQL execution failed: ") \o ErrorMsg(st)))
    ELSE Sleeping

\* a poll loop that gives up one turn early: range(wait - 1)
AfterTurnEarly(turn, taken, wait) ==
    IF turn.kind = "sleep" /\ taken >= wait - 1
    THEN Raised(Exc("TimeoutError", Lit("SQL timed out after wait_timeout")))
    ELSE turn

\* raise TimeoutError once range(wait) is used up
AfterTurn(turn, taken, wait) ==
    IF turn.kind = "sleep" /\ taken >= wait
    THEN Raised(Exc("TimeoutError", Lit("SQL timed out after wait_timeout")))
    ELSE turn

\* a statement id kept in one place for all invocations: the latest one
PolledIdShared(p) == Len(stmts)

\* the statement id _run_sql asks the status of
PolledId(p) == stId[p]

(***************************************************************************)
(* fetch                                                                   *)
(***************************************************************************)
\* rid.startswith("query::")
IsQueryId(rid) == StartsWith(rid, QUERY \o SEP)

\* rid.split("::", 1)
SplitRid(rid) == Split(rid, SEP, 1)

\* a split without its limit: rid.split("::")[1]
FetchSqlUnlimited(rid) == SplitAll(rid, SEP)[2]

\* sql = rid.split("::", 1)[1]
FetchSql(rid) == SplitRid(rid)[2]

\* a, b = parts with the wrong number of parts
UnpackError(expected, got) ==
    Exc("ValueError",
        <<"not enough values to unpack (expected ", ToString(expected), ", got ",
          ToString(got), ")">>)

\* res['manifest']['total_row_count'] on what _run_sql returned
WithRowCount(out) ==
    IF out.kind = "return" /\ "manifest" \notin DOMAIN out.status
    THEN Raised(KeyError("manifest"))
    ELSE IF out.kind = "return" /\ "total_row_count" \notin DOMAIN out.status.manifest
    THEN Raised(KeyError("total_row_count"))
    ELSE out

\* fetch, SQL path: the result built from what the try block came to
FetchSqlReturn(rid, out) ==
    IF out.kind = "return"
    THEN [ id       |-> rid,
           title    |-> Lit("SQL query result"),
           text     |-> <<"Returned ", ToString(out.status.manifest.total_row_count),
                          " row(s)">>,
           metadata |-> out.status ]
    ELSE IF Caught(out.exc)
         THEN [error |-> Lit("SQL execution failed: ") \o out.exc.msg]
         ELSE [raised |-> out.exc]

\* fetch, metadata path: the except clause
FetchMetaExcept(e) == IF Caught(e) THEN [error |-> e.msg] ELSE [raised |-> e]

\* splits without their limits: name.split(".")[0], [1], [2]
TargetUnlimited(kind, name) ==
    LET parts == SplitAll(name, DOT) IN
    [ kind |-> kind, name |-> name,
      cat  |-> IF kind \in {SCHEMA, TABLE} THEN parts[1] ELSE Empty,
      sch  |-> IF kind \in {SCHEMA, TABLE} /\ Len(parts) >= 2 THEN parts[2] ELSE Empty,
      tbl  |-> IF kind = TABLE /\ Len(parts) >= 3 THEN parts[3] ELSE Empty ]

\* fetch, metadata path: kind, name and the names unpacked from name
Target(kind, name) ==
    LET two == Split(name, DOT, 1)
        three == Split(name, DOT, 2) IN
    [ kind |-> kind, name |-> name,
      cat  |-> IF kind = SCHEMA THEN two[1] ELSE IF kind = TABLE THEN three[1] ELSE Empty,
      sch  |-> IF kind = SCHEMA /\ Len(two) = 2 THEN two[2]
               ELSE IF kind = TABLE /\ Len(three) >= 2 THEN three[2] ELSE Empty,
      tbl  |-> IF kind = TABLE /\ Len(three) = 3 THEN three[3] ELSE Empty ]

\* the unpacking of name raises
TargetError(kind, name) ==
    IF kind = SCHEMA /\ Len(Split(name, DOT, 1)) # 2
    THEN UnpackError(2, Len(Split(name, DOT, 1)))
    ELSE IF kind = TABLE /\ Len(Split(name, DOT, 2)) # 3
    THEN UnpackError(3, Len(Split(name, DOT, 2)))
    ELSE NoExc

NotFound(rid) == [error |-> Lit("Resource '") \o rid \o Lit("' not found")]
BadId == [error |-> Lit("Bad ID format")]

\* fetch, metadata path, up to its first remote call: where it stands then
\* (or "done"), what it returns, the exception raised and the names unpacked
FetchDecode(rid) ==
    IF Len(SplitRid(rid)) # 2
    THEN [pc |-> "done", ret |-> BadId, exc |-> UnpackError(2, Len(SplitRid(rid))),
          target |-> NoTarget]
    ELSE LET kind == SplitRid(rid)[1]
             name == SplitRid(rid)[2]
             e == TargetError(kind, name) IN
         IF e # NoExc
         THEN [pc |-> "done", ret |-> FetchMetaExcept(e), exc |-> e,
               target |-> [NoTarget EXCEPT !.kind = kind, !.name = name]]
         ELSE IF kind \in {CATALOG, SCHEMA, TABLE}
         THEN [pc |-> "meta", ret |-> NoRet, exc |-> NoExc, target |-> Target(kind, name)]
         ELSE [pc |-> "done", ret |-> NotFound(rid), exc |-> NoExc,
               target |-> Target(kind, name)]

\* fetch(rid) up to its first remote call
CallFetch(p, rid) ==
    /\ Enter(p, "fetch", rid)
    /\ results' = [results EXCEPT ![p] = << >>]
    /\ IF IsQueryId(rid)
       THEN /\ target' = [target EXCEPT ![p] = NoTarget]
            /\ sql' = [sql EXCEPT ![p] = FetchSql(rid)]
            /\ Continue(p, "submit")
       ELSE /\ sql' = [sql EXCEPT ![p] = Empty]
            /\ target' = [target EXCEPT ![p] = FetchDecode(rid).target]
            /\ pc' = [pc EXCEPT ![p] = FetchDecode(rid).pc]
            /\ ret' = [ret EXCEPT ![p] = FetchDecode(rid).ret]
            /\ exc' = [exc EXCEPT ![p] = FetchDecode(rid).exc]

\* r.raise_for_status(); meta = r.json(); st_id = meta.get("statement_id")
FetchSubmit(p) ==
    /\ pc[p] = "submit"
    /\ contacted' = [contacted EXCEPT ![p] = @ \cup {"statements"}]
    /\ \E r \in SubmitResponses(Len(stmts) + 1) :
          IF ~r.ok
          THEN /\ Finish(p, FetchSqlReturn(arg[p], Raised(r.exc)), r.exc)
               /\ UNCHANGED <<stmts, stId>>
          ELSE /\ stmts' = Append(stmts, [by |-> inv[p], byOp |-> op[p], polledBy |-> {}])
               /\ stId' = [stId EXCEPT ![p] = Get(r.body, "statement_id", None)]
               /\ IF DefaultWait > 0
                  THEN Continue(p, "poll")
                  ELSE Finish(p, FetchSqlReturn(arg[p], AfterTurn(Sleeping, 0, DefaultWait)),
                              AfterTurn(Sleeping, 0, DefaultWait).exc)
    /\ UNCHANGED <<world, calls, op, arg, inv, searchVars, target, sql, polls, status,
                   failedSeen, failedMsg, allPending>>

\* the status GET answered with a body whose state is `state`
Reports(r, state) ==
    /\ r.ok
    /\ "status" \in DOMAIN r.body
    /\ "state" \in DOMAIN r.body.status
    /\ r.body.status.state = state

\* the error message of a FAILED report, "" when it carries none
ReportedMessage(r) ==
    IF "error" \in DOMAIN r.body.status /\ "message" \in DOMAIN r.body.status.error
    THEN r.body.status.error.message
    ELSE Empty

\* the status GET answered with result data
CarriesResult(r) == r.ok /\ "result" \in DOMAIN r.body /\ r.body.result # EmptyDict

\* the status GET answered with a state, which is neither FAILED nor
\* SUCCEEDED with result data
ReportsPending(r) ==
    /\ r.ok
    /\ "status" \in DOMAIN r.body
    /\ "state" \in DOMAIN r.body.status
    /\ ~Reports(r, "FAILED")
    /\ ~(Reports(r, "SUCCEEDED") /\ CarriesResult(r))

\* one turn of the poll loop: status = _get(...), the tests on it, the sleep;
\* after the last turn the TimeoutError; then what fetch makes of the outcome
FetchPoll(p) ==
    /\ pc[p] = "poll"
    /\ contacted' = [contacted EXCEPT ![p] = @ \cup {"statements"}]
    /\ stmts' = IF PolledId(p) \in 1..Len(stmts)
                THEN [stmts EXCEPT ![PolledId(p)].polledBy = @ \cup {inv[p]}]
                ELSE stmts
    /\ \E r \in StatusResponses(PolledId(p)) :
          LET out == IF r.ok
                     THEN WithRowCount(AfterTurn(PollTurn(r.body), polls[p] + 1,
                                                 DefaultWait))
                     ELSE Raised(r.exc) IN
          /\ IF out.kind = "sleep"
             THEN /\ polls' = [polls EXCEPT ![p] = @ + 1]
                  /\ status' = [status EXCEPT ![p] = r.body]
                  /\ stId' = stId
             ELSE \* _run_sql is left: its st_id, status and loop counter are gone
                  /\ polls' = [polls EXCEPT ![p] = 0]
                  /\ status' = [status EXCEPT ![p] = EmptyDict]
                  /\ stId' = [stId EXCEPT ![p] = None]
          /\ failedSeen' = [failedSeen EXCEPT ![p] = @ \/ Reports(r, "FAILED")]
          /\ failedMsg' = [failedMsg EXCEPT ![p] =
                              IF Reports(r, "FAILED") THEN ReportedMessage(r) ELSE @]
          /\ allPending' = [allPending EXCEPT ![p] = @ /\ ReportsPending(r)]
          /\ IF out.kind = "sleep"
             THEN Continue(p, "poll")
             ELSE Finish(p, FetchSqlReturn(arg[p], out), out.exc)
    /\ UNCHANGED <<world, calls, op, arg, inv, searchVars, target, sql>>

\* what the loop over a listing finds: the first record named `wanted`
Found(item) == [kind |-> "found", item |-> item, exc |-> NoExc]
Missing == [kind |-> "missing", item |-> EmptyDict, exc |-> NoExc]

RECURSIVE Lookup(_, _, _)
\* for x in listing: if x["name"] == wanted: return ...   from the k-th on
Lookup(items, k, wanted) ==
    IF k > Len(items) THEN Missing
    ELSE IF "name" \notin DOMAIN items[k]
         THEN [kind |-> "raise", item |-> EmptyDict, exc |-> KeyError("name")]
    ELSE IF items[k].name = wanted THEN Found(items[k])
    ELSE Lookup(items, k + 1, wanted)

\* fetch, metadata path: the listing call of the kind, the key its records
\* are under, the name looked for and the title's label
MetaResponses(w, t) ==
    IF t.kind = CATALOG THEN ListCatalogsResponses(w)
    ELSE IF t.kind = SCHEMA THEN ListSchemasResponses(w, t.cat)
    ELSE ListTablesResponses(w, t.cat, t.sch)

MetaKey(t) ==
    IF t.kind = CATALOG THEN "catalogs" ELSE IF t.kind = SCHEMA THEN "schemas" ELSE "tables"

MetaWanted(t) ==
    IF t.kind = CATALOG THEN t.name ELSE IF t.kind = SCHEMA THEN t.sch ELSE t.tbl

MetaLabel(t) ==
    IF t.kind = CATALOG THEN "Catalog: "
    ELSE IF t.kind = SCHEMA THEN "Schema: " ELSE "Table: "

\* fetch, metadata path: the listing call, the loop over it and the return
FetchMeta(p) ==
    /\ pc[p] = "meta"
    /\ contacted' = [contacted EXCEPT ![p] = @ \cup {"catalog"}]
    /\ \E r \in MetaResponses(world, target[p]) :
          IF ~r.ok
          THEN Finish(p, FetchMetaExcept(r.exc), r.exc)
          ELSE LET found == Lookup(Get(r.body, MetaKey(target[p]), << >>), 1,
                                   MetaWanted(target[p])) IN
               IF found.kind = "raise"
               THEN Finish(p, FetchMetaExcept(found.exc), found.exc)
               ELSE IF found.kind = "found"
               THEN Finish(p, Hit(arg[p], MetaLabel(target[p]), target[p].name, found.item),
                           NoExc)
               ELSE Finish(p, NotFound(arg[p]), NoExc)
    /\ UNCHANGED <<world, stmts, calls, op, arg, inv, searchVars, fetchVars>>

(***************************************************************************)
(* Inputs and specifications                                               *)
(***************************************************************************)
RECURSIVE Strings(_, _)
\* the strings over chars of at most n characters
Strings(chars, n) ==
    IF n = 0 THEN {Empty}
    ELSE Strings(chars, n - 1)
            \cup {Append(s, c) : s \in Strings(chars, n - 1), c \in chars}

SELECT == <<"s", "e", "l", "e", "c", "t">>
MERGE  == <<"m", "e", "r", "g", "e">>

\* how a search string may start
QueryPrefixes ==
    { Empty, <<" ">>, SQLTAG, <<"S", "Q", "L", ":">>, <<" ">> \o SQLTAG,
      SELECT \o <<" ">>, <<"S">> \o Tail(SELECT), <<" ">> \o MERGE }

\* what the one caller of Spec searches for
Queries ==
    {pre \o body : pre \in QueryPrefixes, body \in Strings({"a", " ", ":", "."}, MaxBody)}

\* catalog, schema and table names: non-empty, without "::"
Names == {n \in Strings({"a", ".", ":"}, MaxName) : n # Empty /\ ~Contains(n, SEP)}

\* what the one caller of Spec fetches, beside the ids search gave it
Rids ==
    {kind \o sep \o body :
        kind \in {QUERY, CATALOG, SCHEMA, TABLE, <<"x">>}, sep \in {SEP, <<":">>},
        body \in Strings({"a", "s", "."}, MaxBody)}
    \cup {TableId(c, s, t) : c \in Names, s \in Names, t \in Names}
    \cup { CatalogId(<<"a">>), SchemaId(<<"a">>, <<"s">>), SchemaId(<<"a">>, <<"t">>),
           TableId(<<"a">>, <<"s">>, <<"t">>), TableId(<<"a">>, <<"s">>, <<"x">>),
           TABLE \o SEP \o <<"a", ".", "s", ".", "t", ".", "x">>,
           <<"g", "a", "r", "b", "a", "g", "e">> }

\* the caller has taken the result: the frame of the invocation is gone
Return(p) ==
    /\ pc[p] = "done"
    /\ pc' = [pc EXCEPT ![p] = "idle"]
    /\ op' = [op EXCEPT ![p] = "none"]
    /\ arg' = [arg EXCEPT ![p] = Empty]
    /\ inv' = [inv EXCEPT ![p] = 0]
    /\ results' = [results EXCEPT ![p] = << >>]
    /\ cats' = [cats EXCEPT ![p] = << >>]
    /\ schs' = [schs EXCEPT ![p] = << >>]
    /\ ci' = [ci EXCEPT ![p] = 0]
    /\ si' = [si EXCEPT ![p] = 0]
    /\ target' = [target EXCEPT ![p] = NoTarget]
    /\ sql' = [sql EXCEPT ![p] = Empty]
    /\ stId' = [stId EXCEPT ![p] = None]
    /\ polls' = [polls EXCEPT ![p] = 0]
    /\ status' = [status EXCEPT ![p] = EmptyDict]
    /\ exc' = [exc EXCEPT ![p] = NoExc]
    /\ ret' = [ret EXCEPT ![p] = NoRet]
    /\ contacted' = [contacted EXCEPT ![p] = {}]
    /\ failedSeen' = [failedSeen EXCEPT ![p] = FALSE]
    /\ failedMsg' = [failedMsg EXCEPT ![p] = Empty]
    /\ allPending' = [allPending EXCEPT ![p] = TRUE]
    /\ UNCHANGED <<world, stmts, calls>>

Step(p) ==
    \/ SearchListCatalogs(p)
    \/ SearchListSchemas(p)
    \/ SearchListTables(p)
    \/ FetchSubmit(p)
    \/ FetchPoll(p)
    \/ FetchMeta(p)

\* one caller: a search or a fetch of any string, and after a search a fetch
\* of an id it returned
Next ==
    \/ pc[1] = "idle" /\ \E q \in Queries : CallSearch(1, q)
    \/ pc[1] = "idle" /\ \E rid \in Rids : CallFetch(1, rid)
    \/ \E rid \in GivenIds(1) : CallFetch(1, rid)
    \/ Step(1)

Spec == Init /\ [][Next]_vars

\* what the callers of SpecConcurrent search for and fetch
FewQueries == { <<"t">>, SELECT \o <<" ", "a">> }
FewRids == { QueryId(<<"a">>) }

\* the callers of the hosting transport, their invocations interleaved
NextConcurrent ==
    \/ \E p \in Procs : pc[p] = "idle" /\ \E q \in FewQueries : CallSearch(p, q)
    \/ \E p \in Procs : pc[p] = "idle" /\ \E rid \in FewRids : CallFetch(p, rid)
    \/ \E p \in Procs : \E rid \in GivenIds(p) : CallFetch(p, rid)
    \/ \E p \in Procs : Step(p)
    \/ \E p \in Procs : Return(p)

SpecConcurrent == Init /\ [][NextConcurrent]_vars

(***************************************************************************)
(* Properties                                                              *)
(***************************************************************************)
InProgress(p) == pc[p] \notin {"idle", "done"}

\* the tags of the four id formats, as the instructions of the tool give them
TagText(tag) ==
    CASE tag = "query"   -> <<"q", "u", "e", "r", "y", ":", ":">>
      [] tag = "catalog" -> <<"c", "a", "t", "a", "l", "o", "g", ":", ":">>
      [] tag = "schema"  -> <<"s", "c", "h", "e", "m", "a", ":", ":">>
      [] tag = "table"   -> <<"t", "a", "b", "l", "e", ":", ":">>

\* id is "<tag>::" followed by a payload
Tagged(id, tag) ==
    /\ Len(id) >= Len(TagText(tag))
    /\ \A k \in 1..Len(TagText(tag)) : id[k] = TagText(tag)[k]

\* what follows "<tag>::" in id
Payload(id, tag) == [k \in 1..(Len(id) - Len(TagText(tag))) |-> id[k + Len(TagText(tag))]]
Done(p, o) == pc[p] = "done" /\ op[p] = o

ErrorShaped(r) == DOMAIN r = {"error"}
SuccessShaped(r) == DOMAIN r = {"id", "title", "text", "metadata"}

\* every entry of a results list is a result or an error entry
ResultsList(r) ==
    /\ DOMAIN r = {"results"}
    /\ \A k \in 1..Len(r.results) :
          SuccessShaped(r.results[k]) \/ ErrorShaped(r.results[k])

\* C1: whatever the remote services answer, an invocation of search ends with
\* a results list and an invocation of fetch with a result object or an
\* error-shaped object; no exception leaves either tool, and an invocation
\* that has not ended can always take its next step.
C1_NoExceptionEscapes ==
    \A p \in Procs :
       /\ "raised" \notin DOMAIN ret[p]
       /\ Done(p, "search") => ResultsList(ret[p])
       /\ Done(p, "fetch") => SuccessShaped(ret[p]) \/ ErrorShaped(ret[p])
       /\ InProgress(p) => ret[p] = NoRet /\ ENABLED Step(p)

\* a fetch whose status body lacked a field ended with an error-shaped result
C1_Witness ==
    \E p \in Procs :
       /\ Done(p, "fetch")
       /\ exc[p].type = "KeyError"
       /\ ErrorShaped(ret[p])
       /\ "statements" \in contacted[p]

TimeoutResult ==
    [error |-> <<"SQL execution failed: ", "SQL timed out after wait_timeout">>]

\* the statements the service holds for the invocation of p
OwnStatements(p) == {i \in 1..Len(stmts) : stmts[i].by = inv[p]}

C2_Budget ==
    \A p \in Procs :
       /\ pc[p] = "poll" => polls[p] < DefaultWait /\ ENABLED FetchPoll(p)
       /\ pc[p] = "submit" => ENABLED FetchSubmit(p)
       /\ inv[p] # 0 => Cardinality(OwnStatements(p)) <= 1

C2_LastPoll ==
    \A p \in Procs :
       (pc[p] = "poll" /\ pc'[p] # "poll" /\ allPending'[p])
          => /\ polls[p] + 1 = DefaultWait
             /\ pc'[p] = "done"
             /\ exc'[p].type = "TimeoutError"
             /\ ret'[p] = TimeoutResult

\* C2: a fetch of a query:: id submits once and polls at most DefaultWait
\* times; when every one of its polls has reported a state that is neither
\* FAILED nor SUCCEEDED with result data, it stops exactly after the
\* DefaultWait-th poll, with the timeout as an error-shaped result; until then
\* its next step is always possible.
C2_BoundedPolling == []C2_Budget /\ [][C2_LastPoll]_vars

\* a fetch has ended in the timeout
C2_Witness ==
    \E p \in Procs :
       /\ Done(p, "fetch")
       /\ allPending[p]
       /\ ~failedSeen[p]
       /\ ret[p] = TimeoutResult

\* C3: when a status poll of a fetch of a query:: id reports FAILED with the
\* error message m, the fetch ends at once and returns exactly
\* {error: "SQL execution failed: " + m}.
C3_FailedMessage ==
    \A p \in Procs :
       (Done(p, "fetch") /\ failedSeen[p] /\ failedMsg[p] # Empty)
          => ret[p] = [error |-> Lit("SQL execution failed: ") \o failedMsg[p]]

\* what a step of a fetch of a query:: id may do to its result
C4_Step ==
    \A p \in Procs :
       /\ (op'[p] = "fetch" /\ SuccessShaped(ret'[p]) /\ ret'[p] # ret[p]
             /\ Tagged(arg'[p], "query"))
             => /\ pc[p] = "poll" /\ pc'[p] = "done"
                /\ polls[p] < DefaultWait
                /\ ~failedSeen'[p]
                /\ LET m == ret'[p].metadata IN
                   /\ m.status.state = "SUCCEEDED"
                   /\ "result" \in DOMAIN m /\ m.result # EmptyDict
                   /\ m.statement_id = stId[p]
                   /\ ret'[p].text =
                         <<"Returned ", ToString(m.manifest.total_row_count), " row(s)">>
                   /\ ret'[p].title = Lit("SQL query result")
                   /\ ret'[p].id = arg[p]
       /\ (pc[p] = "poll" /\ polls'[p] = polls[p] + 1 /\ "status" \in DOMAIN status'[p]
             /\ status'[p].status.state = "SUCCEEDED")
             => /\ "result" \notin DOMAIN status'[p] \/ status'[p].result = EmptyDict
                /\ pc'[p] = "poll"
       /\ (pc[p] = "poll" /\ allPending'[p] /\ polls[p] + 1 < DefaultWait)
             => pc'[p] = "poll"

\* C4: a fetch of a query:: id turns success-shaped only on a poll within the
\* budget, with no FAILED report before it, whose status is SUCCEEDED and
\* carries result data; the result names the id fetched, the row count of
\* that status's manifest, and that status as metadata. A poll that reports
\* SUCCEEDED without result data before the budget is used up leaves the
\* fetch polling.
C4_SuccessOnlyWithResult == [][C4_Step]_vars

\* a fetch returned "Returned 3 row(s)"
C4_Witness ==
    \E p \in Procs :
       /\ Done(p, "fetch")
       /\ SuccessShaped(ret[p])
       /\ ret[p].text = <<"Returned ", "3", " row(s)">>
       /\ ret[p].metadata.manifest.total_row_count = 3

\* the positions of s that hold no white space
Inked(s) == {k \in 1..Len(s) : s[k] \notin {" ", "\t", "\n"}}
First(S) == CHOOSE k \in S : \A j \in S : k <= j
Last(S) == CHOOSE k \in S : \A j \in S : j <= k

\* s without its leading white space, and without white space at either end
LeftTrimmed(s) == IF Inked(s) = {} THEN Empty ELSE SubSeq(s, First(Inked(s)), Len(s))
Trimmed(s) == IF Inked(s) = {} THEN Empty ELSE SubSeq(s, First(Inked(s)), Last(Inked(s)))

\* s starts with word, whatever the case of its letters
StartsWithWord(s, word) ==
    /\ Len(s) >= Len(word)
    /\ \A k \in 1..Len(word) : LowerChar(s[k]) = word[k]

\* a SQL-looking string: left-trimmed and lower-cased it starts with one of
\* the six keywords or with sql:
SqlLooking(s) == \E word \in Keywords \cup {SQLTAG} : StartsWithWord(LeftTrimmed(s), word)

\* s with a leading sql: removed if present, then trimmed
NormalizedSql(s) ==
    Trimmed(IF StartsWithWord(s, SQLTAG) THEN SubSeq(s, Len(SQLTAG) + 1, Len(s)) ELSE s)

\* C5: search of a SQL-looking string s returns exactly one result, whose id
\* is "query::" + NormalizedSql(s); and a fetch of an id "query::" + x takes
\* exactly x, embedded "::" and "." included, as the statement to run.
C5_QueryRoundTrip ==
    \A p \in Procs :
       /\ (Done(p, "search") /\ SqlLooking(arg[p]))
             => /\ DOMAIN ret[p] = {"results"}
                /\ Len(ret[p].results) = 1
                /\ ret[p].results[1].id = TagText("query") \o NormalizedSql(arg[p])
       /\ (op[p] = "fetch" /\ Tagged(arg[p], "query"))
             => /\ sql[p] = Payload(arg[p], "query")
                /\ pc[p] = "done" => "statements" \in contacted[p]

\* a fetch of an id that search gave is polling a statement with "::" in it
C5_Witness ==
    \E p \in Procs :
       /\ op[p] = "fetch" /\ pc[p] = "poll"
       /\ \E s \in Queries :
             /\ SqlLooking(s)
             /\ arg[p] = TagText("query") \o NormalizedSql(s)
             /\ sql[p] = NormalizedSql(s)
       /\ Contains(sql[p], SEP)

Dots(s) == {k \in 1..Len(s) : s[k] = "."}
HasSep(s) == \E k \in 1..(Len(s) - 1) : s[k] = ":" /\ s[k + 1] = ":"

\* a malformed id: no "::" in it, or not a query id and a payload that the
\* dots cut into more than three parts
Malformed(id) ==
    \/ ~HasSep(id)
    \/ /\ ~Tagged(id, "query")
       /\ LET at == First({k \in 1..(Len(id) - 1) : id[k] = ":" /\ id[k + 1] = ":"}) IN
          Cardinality({k \in (at + 2)..Len(id) : id[k] = "."}) + 1 \notin {1, 2, 3}

\* C6: fetch of a malformed id returns exactly {error: "Bad ID format"}
\* (stated for the fetches none of whose remote calls failed).
C6_BadIdFormat ==
    \A p \in Procs :
       (Done(p, "fetch") /\ Malformed(arg[p]) /\ exc[p].type # "HTTPError")
          => ret[p] = [error |-> <<"Bad ID format">>]

\* a name the round trip is claimed for: non-empty, without "::"
NameOk(n) == n # Empty /\ ~HasSep(n)

\* the triples (c, s, t) of names that the table id `id` is built from: one for
\* every two dots of its payload
Triples(id) ==
    LET pay == Payload(id, "table") IN
    { <<SubSeq(pay, 1, ij[1] - 1), SubSeq(pay, ij[1] + 1, ij[2] - 1),
        SubSeq(pay, ij[2] + 1, Len(pay))>> :
        ij \in {ij \in Dots(pay) \X Dots(pay) : ij[1] < ij[2]} }

\* fetch has unpacked (c, s, t) and looks the table up under them
LooksUp(p, c, s, t) ==
    /\ target[p].cat = c /\ target[p].sch = s /\ target[p].tbl = t
    /\ pc[p] = "meta" \/ (pc[p] = "done" /\ contacted[p] = {"catalog"})
    /\ MetaWanted(target[p]) = t
    /\ MetaResponses(world, target[p]) = ListTablesResponses(world, c, s)

\* C7, as claimed: for all non-empty c, s, t without "::", fetch of the id
\* search builds for (c, s, t) looks up table t of catalog c and schema s.
C7_TableRoundTrip ==
    \A p \in Procs :
       (op[p] = "fetch" /\ Tagged(arg[p], "table"))
          => \A tr \in Triples(arg[p]) :
                (NameOk(tr[1]) /\ NameOk(tr[2]) /\ NameOk(tr[3])
                   /\ TableId(tr[1], tr[2], tr[3]) = arg[p])
                   => LooksUp(p, tr[1], tr[2], tr[3])

\* C7, amended: the same for c and s that hold no "." either.
C7_TableRoundTripDotFree ==
    \A p \in Procs :
       (op[p] = "fetch" /\ Tagged(arg[p], "table"))
          => \A tr \in Triples(arg[p]) :
                (NameOk(tr[1]) /\ NameOk(tr[2]) /\ NameOk(tr[3])
                   /\ Dots(tr[1]) = {} /\ Dots(tr[2]) = {}
                   /\ TableId(tr[1], tr[2], tr[3]) = arg[p])
                   => LooksUp(p, tr[1], tr[2], tr[3])

\* a table whose own name holds a dot has been looked up
C7_Witness ==
    \E p \in Procs :
       /\ Done(p, "fetch") /\ Tagged(arg[p], "table")
       /\ \E tr \in Triples(arg[p]) :
             /\ NameOk(tr[1]) /\ NameOk(tr[2]) /\ NameOk(tr[3])
             /\ Dots(tr[1]) = {} /\ Dots(tr[2]) = {} /\ Dots(tr[3]) # {}
             /\ LooksUp(p, tr[1], tr[2], tr[3])

\* C8: a search never calls the Statement Service, and a search of a
\* SQL-looking string calls no remote service at all and is over at once;
\* only a fetch of a query:: id calls the Statement Service, and every
\* statement the service holds was submitted by a fetch.
C8_SearchSubmitsNothing ==
    /\ \A p \in Procs :
          /\ op[p] = "search" => contacted[p] \subseteq {"catalog"}
          /\ (op[p] = "search" /\ SqlLooking(arg[p]))
                => contacted[p] = {} /\ pc[p] = "done"
          /\ "statements" \in contacted[p] => op[p] = "fetch" /\ Tagged(arg[p], "query")
    /\ \A i \in 1..Len(stmts) : stmts[i].byOp = "fetch"

\* a search of a SQL-looking string with white space before its keyword is
\* over, and one of another string has called the catalog
C8_Witness ==
    \E p \in Procs :
       /\ Done(p, "search")
       /\ SqlLooking(arg[p]) /\ arg[p] # LeftTrimmed(arg[p])
       /\ contacted[p] = {}
       /\ Len(ret[p].results) = 1

\* what a step that ends a search on a failed call returns
C9_Step ==
    \A p \in Procs :
       (op[p] = "search" /\ InProgress(p) /\ pc'[p] = "done"
          /\ exc'[p] \in RequestErrors)
          => /\ ret'[p] = [results |-> Append(results[p], [error |-> exc'[p].msg])]
             /\ results'[p] = ret'[p].results
             /\ \A k \in 1..Len(results[p]) : SuccessShaped(results[p][k])

\* C9: when a call of the Catalog Metadata Client fails during a metadata
\* search, the search is over: it returns the results gathered before the
\* call, unchanged and in order, followed by one error entry with the
\* message of the failure.
C9_PartialResultsThenError == [][C9_Step]_vars

\* a search has ended on a failed call with results gathered before it
C9_Witness ==
    \E p \in Procs :
       /\ Done(p, "search")
       /\ exc[p] \in RequestErrors
       /\ Len(ret[p].results) >= 3
       /\ ErrorShaped(ret[p].results[Len(ret[p].results)])
       /\ \A k \in 1..(Len(ret[p].results) - 1) : SuccessShaped(ret[p].results[k])

\* C10: however invocations interleave, a statement is polled only by the
\* invocation that submitted it; an invocation has at most one statement, a
\* fetch of a query:: id that is polling has exactly one, submitted by
\* itself and the one it polls; and a success-shaped result carries the
\* status of the invocation's own statement.
C10_OwnStatementOnly ==
    /\ \A i \in 1..Len(stmts) : stmts[i].polledBy \subseteq {stmts[i].by}
    /\ \A p \in Procs :
          /\ inv[p] # 0 => Cardinality(OwnStatements(p)) <= 1
          /\ pc[p] = "poll"
                => /\ Cardinality(OwnStatements(p)) = 1
                   /\ stId[p] \in OwnStatements(p) \cup {None}
          /\ (Done(p, "fetch") /\ SuccessShaped(ret[p]) /\ Tagged(arg[p], "query"))
                => ret[p].metadata.statement_id \in OwnStatements(p)
    /\ \A p \in Procs, q \in Procs :
          (p # q /\ inv[p] # 0 /\ inv[q] # 0) => OwnStatements(p) \cap OwnStatements(q) = {}

\* two fetches of the same id are polling at the same time, each its own
\* statement
C10_Witness ==
    /\ \A p \in Procs : pc[p] = "poll" /\ polls[p] >= 1
    /\ \A p \in Procs, q \in Procs : arg[p] = arg[q]
    /\ Len(stmts) = 2
    /\ \A i \in 1..Len(stmts) : stmts[i].polledBy # {}

====
